---- MODULE Spec2Model ----
(***************************************************************************)
(* A model of src/src/parsers/md.py: the conversion of quiz questions      *)
(* between the Markdown text format and the question record.               *)
(*                                                                         *)
(* Texts are sequences of symbols.  A symbol is one character ("#", " ",   *)
(* "\n", "+", "-", "=", a letter) or, to keep the texts short, one of the  *)
(* literal words the code compares against ("Question Text", "Question     *)
(* Answers", "Feedback", "Metadata") taken as a single symbol.  Every      *)
(* string operation of the code (split, rstrip, strip, re.sub, startswith, *)
(* slicing, join) is computed on these sequences as Python computes it on  *)
(* characters.                                                             *)
(*                                                                         *)
(* json.dumps is not modelled: md_to_json's value is the question record   *)
(* that json.dumps serialises, and quiz_md_to_json's value is the list of  *)
(* those records.                                                          *)
(***************************************************************************)
EXTENDS Integers, Sequences, FiniteSets, TLC

VARIABLES
    pc,                 \* the position of the running call
    md_q,               \* md_to_json: its argument
    md_copy,            \* md_to_json: the normalised block (lines 113-114)
    q_fiels,            \* md_to_json: the fields the loop of line 139 has still to visit
    question,           \* md_to_json / set_meta: the question record
    exc,                \* the exception that ended the call, or NoExc
    json_obj,           \* json_to_md: its argument
    md_out,             \* json_to_md: its value
    calls,              \* the set_meta calls made so far, <<key, value>> in call order
    ret,                \* get_meta: the last call's key and value
    blocks,             \* the question blocks a document was made of
    json_arr,           \* quiz_json_to_md: its argument
    md_arr,             \* quiz_json_to_md: its value
    file_content,       \* quiz_md_to_json: its argument
    question_arr,       \* quiz_md_to_json: the blocks of line 41
    question_arr_json,  \* quiz_md_to_json: the records mapped so far (line 42)
    result              \* quiz_md_to_json: its value, or NoResult

vars == <<pc, md_q, md_copy, q_fiels, question, exc, json_obj, md_out, calls, ret,
          blocks, json_arr, md_arr, file_content, question_arr, question_arr_json,
          result>>

-----------------------------------------------------------------------------
(* Symbols and the literal texts of the code.                              *)

NL == "\n"
SP == " "
QuestionText    == <<"Question Text">>
QuestionAnswers == <<"Question Answers">>
Feedback        == <<"Feedback">>
Metadata        == <<"Metadata">>
TitleMark   == <<"#", SP>>
SectionMark == <<"#", "#", SP>>
TripleNL    == <<NL, NL, NL>>

-----------------------------------------------------------------------------
(* Python's string operations.                                             *)

\* s[n:]
Drop(s, n) == IF Len(s) <= n THEN <<>> ELSE SubSeq(s, n + 1, Len(s))

\* s.startswith(p)
StartsWith(s, p) == Len(s) >= Len(p) /\ SubSeq(s, 1, Len(p)) = p

\* s.find(sep, i): the least index >= i at which sep occurs, 0 when there is none
RECURSIVE Find(_, _, _)
Find(s, sep, i) ==
    IF i + Len(sep) - 1 > Len(s) THEN 0
    ELSE IF SubSeq(s, i, i + Len(sep) - 1) = sep THEN i
    ELSE Find(s, sep, i + 1)

\* s.split(sep)
RECURSIVE Split(_, _)
Split(s, sep) ==
    LET j == Find(s, sep, 1)
    IN  IF j = 0 THEN <<s>>
        ELSE <<SubSeq(s, 1, j - 1)>> \o Split(Drop(s, j + Len(sep) - 1), sep)

\* sep.join(list)
RECURSIVE Join(_, _)
Join(list, sep) ==
    IF list = <<>> THEN <<>>
    ELSE IF Len(list) = 1 THEN list[1]
    ELSE list[1] \o sep \o Join(Tail(list), sep)

\* s.rstrip(): trailing whitespace removed
RECURSIVE RStrip(_)
RStrip(s) ==
    IF s # <<>> /\ s[Len(s)] \in {SP, NL} THEN RStrip(SubSeq(s, 1, Len(s) - 1)) ELSE s

\* s.rstrip('\n')
RECURSIVE RStripNL(_)
RStripNL(s) ==
    IF s # <<>> /\ s[Len(s)] = NL THEN RStripNL(SubSeq(s, 1, Len(s) - 1)) ELSE s

\* s.lstrip('\n')
RECURSIVE LStripNL(_)
LStripNL(s) == IF s # <<>> /\ s[1] = NL THEN LStripNL(Tail(s)) ELSE s

\* s.strip('\n')
StripNL(s) == LStripNL(RStripNL(s))

\* re.sub(r'\n+', '\n', s)
RECURSIVE CollapseNL(_)
CollapseNL(s) ==
    IF Len(s) < 2 THEN s
    ELSE IF s[1] = NL /\ s[2] = NL THEN CollapseNL(Tail(s))
    ELSE <<s[1]>> \o CollapseNL(Tail(s))

\* [f(x) for x in list if p(x)] helpers
RECURSIVE CountPlus(_)
CountPlus(q_ans) ==
    IF q_ans = <<>> THEN 0
    ELSE (IF q_ans[1][1] = "+" THEN 1 ELSE 0) + CountPlus(Tail(q_ans))

\* some line is empty: ans[0] raises IndexError on it
HasEmptyLine(q_ans) == \E k \in 1..Len(q_ans) : q_ans[k] = <<>>

-----------------------------------------------------------------------------
(* Python values.                                                          *)

\* get_meta returns a str or a list: the two are kept apart by their type
PyStr(t)  == [type |-> "str",  str |-> t,    list |-> <<>>]
PyList(l) == [type |-> "list", str |-> <<>>, list |-> l]

\* repr of a list of str without quotes in them: "['a', 'b']"
ReprList(l) ==
    <<"[">> \o Join([k \in 1..Len(l) |-> <<"'">> \o l[k] \o <<"'">>], <<",", SP>>) \o <<"]">>

\* str(v)
Str(v) == IF v.type = "str" THEN v.str ELSE ReprList(v.list)

\* How a call ends: normally, or by an exception.  sys.exit raises SystemExit;
\* kind names which of check_md_q's three messages it carries and arg the text
\* the message quotes.
NoExc == [type |-> "none", kind |-> "", arg |-> <<>>]
SysExit(kind, arg) == [type |-> "SystemExit", kind |-> kind, arg |-> arg]
ZeroDivisionError == [type |-> "ZeroDivisionError", kind |-> "", arg |-> <<>>]
IndexError == [type |-> "IndexError", kind |-> "", arg |-> <<>>]

\* grades: the float num/den
Grade(num, den) == [num |-> num, den |-> den]

-----------------------------------------------------------------------------
(* get_meta and set_meta (lines 10-33).  A dict keeps its keys in          *)
(* insertion order: metadata is the sequence of its items.                 *)

HasKey(metadata, key) == \E k \in 1..Len(metadata) : metadata[k].key = key

KeyIndex(metadata, key) == CHOOSE k \in 1..Len(metadata) : metadata[k].key = key

get_meta(question_dict, key) ==
    IF ~HasKey(question_dict.metadata, key) THEN PyStr(<<>>)
    ELSE LET values == question_dict.metadata[KeyIndex(question_dict.metadata, key)].values
         IN  IF Len(values) = 1 THEN PyStr(values[1]) ELSE PyList(values)

\* set_meta with line 33 storing the value in place of the list: [value]
set_meta_overwrite(question_dict, key, value) ==
    LET m0 == question_dict.metadata
        m1 == IF ~HasKey(m0, key) THEN Append(m0, [key |-> key, values |-> <<>>]) ELSE m0
        k  == KeyIndex(m1, key)
    IN  [question_dict EXCEPT !.metadata =
            [m1 EXCEPT ![k] = [key |-> key, values |-> <<value>>]]]

set_meta(question_dict, key, value) ==
    LET m0 == question_dict.metadata
        m1 == IF ~HasKey(m0, key) THEN Append(m0, [key |-> key, values |-> <<>>]) ELSE m0
        k  == KeyIndex(m1, key)
    IN  [question_dict EXCEPT !.metadata =
            [m1 EXCEPT ![k] = [key |-> key, values |-> Append(m1[k].values, value)]]]

-----------------------------------------------------------------------------
(* json_to_md (lines 53-82).  A record whose "feedback" is None is a        *)
(* record without the key: line 73 treats the two alike.                   *)

RECURSIVE AnswersMd(_)
AnswersMd(answers) ==
    IF answers = <<>> THEN <<>>
    ELSE LET answer == answers[1]
             grade  == IF answer.correct THEN "+" ELSE "-"
         IN  <<grade, SP>> \o answer.statement \o <<NL, NL>> \o AnswersMd(Tail(answers))

RECURSIVE TagsMd(_, _)
TagsMd(json_q, k) ==
    IF k > Len(json_q.metadata) THEN <<>>
    ELSE LET json_tag == json_q.metadata[k].key
         IN  json_tag \o <<"=">> \o Str(get_meta(json_q, json_tag)) \o <<NL, NL>>
                \o TagsMd(json_q, k + 1)

json_to_md(json_q) ==
    LET title    == TitleMark \o json_q.name \o <<NL, NL>>
        text     == SectionMark \o QuestionText \o <<NL, NL>> \o json_q.statement \o <<NL, NL>>
        answers  == SectionMark \o QuestionAnswers \o <<NL, NL>> \o AnswersMd(json_q.answers)
        feedback == IF "feedback" \in DOMAIN json_q
                    THEN SectionMark \o Feedback \o <<NL, NL>> \o json_q.feedback \o <<NL, NL>>
                    ELSE <<>>
        metadata == IF "metadata" \in DOMAIN json_q
                    THEN SectionMark \o Metadata \o <<NL, NL>> \o TagsMd(json_q, 1)
                    ELSE <<>>
    IN  title \o text \o answers \o feedback \o metadata \o <<NL>>

\* quiz_json_to_md (lines 45-51)
quiz_json_to_md(arr) == [k \in 1..Len(arr) |-> json_to_md(arr[k])]

-----------------------------------------------------------------------------
(* check_md_q (lines 84-105).  Its value is how the call ends.  The three  *)
(* sys.exit messages are named after the error they report:                *)
(*   MissingTitle            'Question starting with "..." does not have a *)
(*                            title.'                                      *)
(*   MissingRequiredSection  'No question text or answer set for question  *)
(*                            "...".'                                      *)
(*   NoCorrectAnswer         'No correct answer set for question "...".'   *)

Lines(s) == Split(s, <<NL>>)

InSeq(x, list) == \E k \in 1..Len(list) : list[k] = x

check_md_q(md) ==
    LET q_title     == Lines(md)[1]
        q_fields    == Split(md, SectionMark)
        field_names == [k \in 1..(Len(q_fields) - 1) |-> Lines(q_fields[k + 1])[1]]
        matching    == SelectSeq(q_fields, LAMBDA s : StartsWith(s, QuestionAnswers))
        q_ans       == Tail(Lines(RStripNL(matching[1])))
    IN  IF ~StartsWith(q_title, TitleMark)
        THEN SysExit("MissingTitle", q_title)
        ELSE IF ~InSeq(QuestionText, field_names) \/ ~InSeq(QuestionAnswers, field_names)
        THEN SysExit("MissingRequiredSection", Drop(q_title, 2))
        ELSE IF HasEmptyLine(q_ans)
        THEN IndexError
        ELSE IF CountPlus(q_ans) < 1
        THEN SysExit("NoCorrectAnswer", Drop(q_title, 2))
        ELSE NoExc

-----------------------------------------------------------------------------
(* md_to_json (lines 107-171).                                             *)

\* lines 113-114
Normalize(md) == StripNL(CollapseNL(RStrip(md)))

\* lines 118-131, with the name of lines 133-135
NewQuestion(name) ==
    [name |-> name, statement |-> <<>>, feedback |-> <<>>, metadata |-> <<>>,
     answers |-> <<>>, correct_answers_no |-> 0]

\* lines 149-162: the answers one section appends
RECURSIVE AnswersOf(_, _)
AnswersOf(q_ans, n) ==
    IF q_ans = <<>> THEN <<>>
    ELSE LET ans == q_ans[1]
             one == IF ans[1] = "+"
                    THEN <<[statement |-> Drop(ans, 2), correct |-> TRUE, grade |-> Grade(1, n)]>>
                    ELSE IF ans[1] = "-"
                    THEN IF n > 1
                         THEN <<[statement |-> Drop(ans, 2), correct |-> FALSE,
                                 grade |-> Grade(-1, n)]>>
                         ELSE <<[statement |-> Drop(ans, 2), correct |-> FALSE,
                                 grade |-> Grade(0, 1)]>>
                    ELSE <<>>
         IN  one \o AnswersOf(Tail(q_ans), n)

\* lines 167-169: the pairs one section records, until a line without '='
RECURSIVE SetMetas(_, _)
SetMetas(q, metas) ==
    IF metas = <<>> THEN [question |-> q, exc |-> NoExc]
    ELSE LET tag_pair == Split(metas[1], <<"=">>)
         IN  IF Len(tag_pair) < 2 THEN [question |-> q, exc |-> IndexError]
             ELSE SetMetas(set_meta(q, tag_pair[1], tag_pair[2]), Tail(metas))

\* lines 140-169: one turn of the loop over the fields
ParseField(q, field) ==
    LET field_name == Lines(field)[1]
    IN  IF field_name = QuestionText
        THEN [question |-> [q EXCEPT !.statement = Join(Tail(Lines(field)), <<NL>>)],
              exc |-> NoExc]
        ELSE IF field_name = QuestionAnswers
        THEN LET q_ans == Tail(Lines(RStripNL(field)))
                 n     == CountPlus(q_ans)
             IN  IF HasEmptyLine(q_ans) THEN [question |-> q, exc |-> IndexError]
                 ELSE IF n = 0
                 THEN [question |-> [q EXCEPT !.correct_answers_no = n],
                       exc |-> ZeroDivisionError]
                 ELSE [question |-> [q EXCEPT !.correct_answers_no = n,
                                              !.answers = @ \o AnswersOf(q_ans, n)],
                       exc |-> NoExc]
        ELSE IF field_name = Feedback
        THEN [question |-> [q EXCEPT !.feedback = Join(Tail(Lines(field)), <<NL>>)],
              exc |-> NoExc]
        ELSE IF field_name = Metadata
        THEN SetMetas(q, Tail(Lines(RStripNL(field))))
        ELSE [question |-> q, exc |-> NoExc]

\* lines 139-169: the loop
RECURSIVE ParseFields(_, _)
ParseFields(q, fields) ==
    IF fields = <<>> THEN [question |-> q, exc |-> NoExc]
    ELSE LET r == ParseField(q, fields[1])
         IN  IF r.exc # NoExc THEN r ELSE ParseFields(r.question, Tail(fields))

\* the whole call: the record it returns, or the exception that ends it
md_to_json(md) ==
    LET copy  == Normalize(md)
        check == check_md_q(copy)
    IN  IF check # NoExc THEN [question |-> NewQuestion(<<>>), exc |-> check]
        ELSE ParseFields(NewQuestion(Drop(Lines(copy)[1], 2)), Split(copy, SectionMark))

-----------------------------------------------------------------------------
(* quiz_md_to_json (lines 35-43): list(map(md_to_json, question_arr))      *)
(* calls md_to_json on the blocks in order and appends each value.         *)

\* the values collected in reverse: each new value put first
MapPrepend(done, value) == <<value>> \o done

MapAppend(done, value) == Append(done, value)

NoResult == <<>>

-----------------------------------------------------------------------------
(* Inputs.                                                                 *)

MaxCalls    == 3   \* set_meta calls in one run
MaxSections == 3   \* sections in a generated block
MaxAnswers  == 3   \* answers in a generated record
MaxBlocks   == 2   \* blocks in a document, records in a list

RECURSIVE SeqsUpTo(_, _)
SeqsUpTo(S, n) ==
    IF n = 0 THEN {<<>>}
    ELSE LET shorter == SeqsUpTo(S, n - 1)
         IN  shorter \cup {Append(q, x) : q \in {t \in shorter : Len(t) = n - 1}, x \in S}

RECURSIVE Flatten(_)
Flatten(list) == IF list = <<>> THEN <<>> ELSE list[1] \o Flatten(Tail(list))

Keys == {<<"t">>, <<"u">>}
Vals == {<<"a">>, <<"b">>}

\* the lines of a section: its heading, then its body
Heading(name) == SectionMark \o name

SectionPool ==
    { <<Heading(QuestionText)>>,
      <<Heading(QuestionText), <<"s">>>>,
      <<Heading(QuestionAnswers)>>,
      <<Heading(QuestionAnswers), <<"+", SP, "a">>, <<"-", SP, "b">>>>,
      <<Heading(QuestionAnswers), <<"-", SP, "b">>>>,
      <<Heading(QuestionAnswers), <<"+", SP, "a">>, <<"+", SP, "c">>, <<"-", SP, "b">>>>,
      <<Heading(QuestionAnswers \o <<"x">>), <<"+", SP, "a">>>>,
      <<Heading(QuestionAnswers \o <<"x">>), <<"-", SP, "b">>>>,
      <<Heading(Feedback), <<"f">>>>,
      <<Heading(Metadata), <<"t", "=", "a">>, <<"t", "=", "b">>>>,
      <<Heading(Metadata), <<"t", "=", "a", "=", "b">>>>,
      <<Heading(Metadata), <<"t">>>> }

TitlePool == { <<"#", SP, "T">>, <<"T">> }

\* lines separated by one newline, or by a blank line
LineSeps == { <<NL>>, <<NL, NL>> }

\* the example of the specification's section 8
ExampleBlock ==
    <<"#", SP, "Q1", NL, NL, "#", "#", SP, "Question Text", NL, NL, "What is 2+2?", NL, NL,
      "#", "#", SP, "Question Answers", NL, NL, "+", SP, "4", NL, "-", SP, "5", NL,
      "-", SP, "3">>

GeneratedBlocks ==
    { Join(<<title>> \o Flatten(sections), sep) :
        title \in TitlePool, sections \in SeqsUpTo(SectionPool, MaxSections), sep \in LineSeps }

\* well-formed question records
GradeOf(correct, n) ==
    IF correct THEN Grade(1, n) ELSE IF n > 1 THEN Grade(-1, n) ELSE Grade(0, 1)

NumCorrect(marks) == Cardinality({k \in 1..Len(marks) : marks[k].correct})

AnswerMarks ==
    { m \in SeqsUpTo([statement : {<<"a">>, <<"b">>}, correct : BOOLEAN], MaxAnswers) :
        NumCorrect(m) >= 1 }

WithGrades(marks) ==
    [k \in 1..Len(marks) |->
        [statement |-> marks[k].statement, correct |-> marks[k].correct,
         grade |-> GradeOf(marks[k].correct, NumCorrect(marks))]]

MetadataPool ==
    { <<>>,
      <<[key |-> <<"t">>, values |-> <<<<"a">>>>]>>,
      <<[key |-> <<"t">>, values |-> <<<<"a">>, <<"b">>>>]>> }

CoreRecords ==
    { [name |-> <<"n">>, statement |-> st, answers |-> WithGrades(m),
       correct_answers_no |-> NumCorrect(m)] :
        st \in { <<>>, <<"s">>, <<"s", SP, "t">> }, m \in AnswerMarks }

WellFormedRecords ==
    CoreRecords
    \cup { r @@ [feedback |-> f] : r \in CoreRecords, f \in { <<>>, <<"f">> } }
    \cup { r @@ [metadata |-> m] : r \in CoreRecords, m \in MetadataPool }
    \cup { r @@ [feedback |-> f, metadata |-> m] :
             r \in CoreRecords, f \in { <<>>, <<"f">> }, m \in MetadataPool }

\* blocks and records of the batch runs
Q(name, text, answers) ==
    TitleMark \o name \o <<NL>> \o Heading(QuestionText) \o <<NL>> \o text \o <<NL>>
        \o Heading(QuestionAnswers) \o <<NL>> \o answers

BatchBlocks ==
    { Q(<<"a">>, <<"s">>, <<"+", SP, "a", NL, "-", SP, "b">>),
      CollapseNL(Q(<<"b">>, <<>>, <<"+", SP, "a", NL, "+", SP, "b">>)),
      \* the text json_to_md writes for an empty statement, without its last newlines
      <<"#", SP, "c", NL, NL, "#", "#", SP, "Question Text", NL, NL, NL, NL,
        "#", "#", SP, "Question Answers", NL, NL, "+", SP, "a">>,
      Q(<<"d">>, <<"s">>, <<"+", SP, "a", NL, NL>>),
      <<NL>> \o Q(<<"e">>, <<"s">>, <<"+", SP, "a">>),
      <<"f">>,
      Q(<<"g">>, <<"s">>, <<"-", SP, "b">>),
      TitleMark \o <<"h", NL>> \o Heading(QuestionText) \o <<NL, "s">>,
      Q(<<"i">>, <<"s">>, <<"+", SP, "a", NL>>) \o Heading(QuestionAnswers) \o <<NL, "-", SP, "b">> }

BatchRecords ==
    { [name |-> <<"n">>, statement |-> <<"s">>,
       answers |-> WithGrades(<<[statement |-> <<"a">>, correct |-> TRUE]>>),
       correct_answers_no |-> 1],
      [name |-> <<"m">>, statement |-> <<"s">>, feedback |-> <<"f">>,
       metadata |-> <<[key |-> <<"t">>, values |-> <<<<"a">>>>]>>,
       answers |-> WithGrades(<<[statement |-> <<"a">>, correct |-> TRUE],
                                [statement |-> <<"b">>, correct |-> FALSE]>>),
       correct_answers_no |-> 1],
      [name |-> <<"k">>, statement |-> <<>>,
       answers |-> WithGrades(<<[statement |-> <<"a">>, correct |-> TRUE],
                                [statement |-> <<"b">>, correct |-> TRUE]>>),
       correct_answers_no |-> 2] }

NonEmptySeqs(S, n) == SeqsUpTo(S, n) \ {<<>>}

-----------------------------------------------------------------------------
(* The state machine.                                                      *)

\* a variable a run does not use holds Unused
Unused == <<>>

InitParse ==
    /\ pc = "md_to_json"
    /\ md_q \in GeneratedBlocks \cup {ExampleBlock}
    /\ exc = NoExc
    /\ question = NewQuestion(<<>>)
    /\ md_copy = Unused /\ q_fiels = Unused /\ json_obj = Unused /\ md_out = Unused
    /\ calls = Unused /\ ret = Unused /\ blocks = Unused /\ json_arr = Unused
    /\ md_arr = Unused /\ file_content = Unused /\ question_arr = Unused
    /\ question_arr_json = Unused /\ result = Unused

InitRoundTrip ==
    /\ pc = "json_to_md"
    /\ json_obj \in WellFormedRecords
    /\ exc = NoExc
    /\ question = NewQuestion(<<>>)
    /\ md_q = Unused /\ md_copy = Unused /\ q_fiels = Unused /\ md_out = Unused
    /\ calls = Unused /\ ret = Unused /\ blocks = Unused /\ json_arr = Unused
    /\ md_arr = Unused /\ file_content = Unused /\ question_arr = Unused
    /\ question_arr_json = Unused /\ result = Unused

InitMeta ==
    /\ pc = "meta"
    /\ question = NewQuestion(<<"T">>)
    /\ exc = NoExc
    /\ md_q = Unused /\ md_copy = Unused /\ q_fiels = Unused /\ json_obj = Unused
    /\ md_out = Unused /\ calls = Unused /\ ret = Unused /\ blocks = Unused
    /\ json_arr = Unused /\ md_arr = Unused /\ file_content = Unused
    /\ question_arr = Unused /\ question_arr_json = Unused /\ result = Unused

InitQuiz ==
    /\ \/ /\ pc = "quiz_md_to_json"
          /\ blocks \in NonEmptySeqs(BatchBlocks, MaxBlocks)
          /\ file_content = Join(blocks, TripleNL)
          /\ json_arr = <<>>
       \/ /\ pc = "quiz_json_to_md"
          /\ json_arr \in NonEmptySeqs(BatchRecords, MaxBlocks)
          /\ blocks = <<>>
          /\ file_content = <<>>
    /\ exc = NoExc
    /\ question = NewQuestion(<<>>)
    /\ result = NoResult
    /\ md_q = Unused /\ md_copy = Unused /\ q_fiels = Unused /\ json_obj = Unused
    /\ md_out = Unused /\ calls = Unused /\ ret = Unused /\ md_arr = Unused
    /\ question_arr = Unused /\ question_arr_json = Unused

\* set_meta(question, key, value); it returns None
SetMeta(key, value) ==
    /\ pc = "meta"
    /\ Len(calls) < MaxCalls
    /\ question' = set_meta(question, key, value)
    /\ calls' = Append(calls, <<key, value>>)
    /\ ret' = <<>>
    /\ UNCHANGED <<pc, md_q, md_copy, q_fiels, exc, json_obj, md_out, blocks, json_arr,
                   md_arr, file_content, question_arr, question_arr_json, result>>

\* get_meta(question, key)
GetMeta(key) ==
    /\ pc = "meta"
    /\ ret' = <<[key |-> key, value |-> get_meta(question, key)]>>
    /\ UNCHANGED <<pc, md_q, md_copy, q_fiels, question, exc, json_obj, md_out, calls,
                   blocks, json_arr, md_arr, file_content, question_arr,
                   question_arr_json, result>>

\* json_to_md(json_obj); its value is handed to md_to_json
JsonToMd ==
    /\ pc = "json_to_md"
    /\ md_out' = json_to_md(json_obj)
    /\ md_q' = md_out'
    /\ pc' = "md_to_json"
    /\ UNCHANGED <<md_copy, q_fiels, question, exc, json_obj, calls, ret, blocks, json_arr,
                   md_arr, file_content, question_arr, question_arr_json, result>>

\* md_to_json, lines 113-114
NormalizeBlock ==
    /\ pc = "md_to_json"
    /\ md_copy' = Normalize(md_q)
    /\ pc' = "check_md_q"
    /\ UNCHANGED <<md_q, q_fiels, question, exc, json_obj, md_out, calls, ret, blocks,
                   json_arr, md_arr, file_content, question_arr, question_arr_json, result>>

\* md_to_json, lines 116-137: the validator, then the fresh record
CheckBlock ==
    /\ pc = "check_md_q"
    /\ LET check == check_md_q(md_copy)
       IN  IF check # NoExc
           THEN /\ exc' = check
                /\ pc' = "raised"
                /\ UNCHANGED <<question, q_fiels>>
           ELSE /\ question' = NewQuestion(Drop(Lines(md_copy)[1], 2))
                /\ q_fiels' = Split(md_copy, SectionMark)
                /\ pc' = "fields"
                /\ exc' = exc
    /\ UNCHANGED <<md_q, md_copy, json_obj, md_out, calls, ret, blocks, json_arr, md_arr,
                   file_content, question_arr, question_arr_json, result>>

\* md_to_json, lines 139-169: one turn of the loop
ParseNextField ==
    /\ pc = "fields"
    /\ q_fiels # <<>>
    /\ LET r == ParseField(question, q_fiels[1])
       IN  /\ question' = r.question
           /\ exc' = r.exc
           /\ IF r.exc # NoExc
              THEN pc' = "raised" /\ q_fiels' = q_fiels
              ELSE pc' = "fields" /\ q_fiels' = Tail(q_fiels)
    /\ UNCHANGED <<md_q, md_copy, json_obj, md_out, calls, ret, blocks, json_arr, md_arr,
                   file_content, question_arr, question_arr_json, result>>

\* md_to_json, line 171
ReturnQuestion ==
    /\ pc = "fields"
    /\ q_fiels = <<>>
    /\ pc' = "returned"
    /\ UNCHANGED <<md_q, md_copy, q_fiels, question, exc, json_obj, md_out, calls, ret,
                   blocks, json_arr, md_arr, file_content, question_arr,
                   question_arr_json, result>>

\* quiz_json_to_md(json_arr)
QuizJsonToMd ==
    /\ pc = "quiz_json_to_md"
    /\ md_arr' = quiz_json_to_md(json_arr)
    /\ pc' = "written"
    /\ UNCHANGED <<md_q, md_copy, q_fiels, question, exc, json_obj, md_out, calls, ret,
                   blocks, json_arr, file_content, question_arr, question_arr_json, result>>

\* the caller writes the texts one after the other and reads them back
Concatenate ==
    /\ pc = "written"
    /\ file_content' = Flatten(md_arr)
    /\ pc' = "quiz_md_to_json"
    /\ UNCHANGED <<md_q, md_copy, q_fiels, question, exc, json_obj, md_out, calls, ret,
                   blocks, json_arr, md_arr, question_arr, question_arr_json, result>>

\* quiz_md_to_json, line 41
SplitDocument ==
    /\ pc = "quiz_md_to_json"
    /\ question_arr' = Split(file_content, TripleNL)
    /\ pc' = "map"
    /\ UNCHANGED <<md_q, md_copy, q_fiels, question, exc, json_obj, md_out, calls, ret,
                   blocks, json_arr, md_arr, file_content, question_arr_json, result>>

\* quiz_md_to_json, line 42: md_to_json on the next block
MapNextBlock ==
    /\ pc = "map"
    /\ Len(question_arr_json) < Len(question_arr)
    /\ LET r == md_to_json(question_arr[Len(question_arr_json) + 1])
       IN  IF r.exc # NoExc
           THEN /\ exc' = r.exc
                /\ pc' = "raised"
                /\ UNCHANGED question_arr_json
           ELSE /\ question_arr_json' = MapAppend(question_arr_json, r.question)
                /\ UNCHANGED <<exc, pc>>
    /\ UNCHANGED <<md_q, md_copy, q_fiels, question, json_obj, md_out, calls, ret, blocks,
                   json_arr, md_arr, file_content, question_arr, result>>

\* quiz_md_to_json, line 43
ReturnQuiz ==
    /\ pc = "map"
    /\ Len(question_arr_json) = Len(question_arr)
    /\ result' = <<question_arr_json>>
    /\ pc' = "returned"
    /\ UNCHANGED <<md_q, md_copy, q_fiels, question, exc, json_obj, md_out, calls, ret,
                   blocks, json_arr, md_arr, file_content, question_arr, question_arr_json>>

NextParse == NormalizeBlock \/ CheckBlock \/ ParseNextField \/ ReturnQuestion

NextRoundTrip == JsonToMd \/ NextParse

NextMeta ==
    \/ \E key \in Keys, value \in Vals : SetMeta(key, value)
    \/ \E key \in Keys : GetMeta(key)

NextQuiz == QuizJsonToMd \/ Concatenate \/ SplitDocument \/ MapNextBlock \/ ReturnQuiz

\* md_to_json on one block
Spec == InitParse /\ [][NextParse]_vars

\* json_to_md on one record, md_to_json on its text
SpecRoundTrip == InitRoundTrip /\ [][NextRoundTrip]_vars

\* set_meta and get_meta on one record
SpecMeta == InitMeta /\ [][NextMeta]_vars

\* quiz_md_to_json on a document, quiz_json_to_md on a list of records
SpecQuiz == InitQuiz /\ [][NextQuiz]_vars

-----------------------------------------------------------------------------
(* Metadata accumulation (SpecMeta).                                       *)

\* the values the set_meta calls so far gave for key, in call order
RECURSIVE ValuesGiven(_, _)
ValuesGiven(log, key) ==
    IF log = <<>> THEN <<>>
    ELSE (IF log[1][1] = key THEN <<log[1][2]>> ELSE <<>>) \o ValuesGiven(Tail(log), key)

\* what get_meta is to return for key after those calls
Accumulated(key) ==
    LET given == ValuesGiven(calls, key)
    IN  IF given = <<>> THEN PyStr(<<>>)
        ELSE IF Len(given) = 1 THEN PyStr(given[1])
        ELSE PyList(given)

\* C4: after any sequence of set_meta calls on a record with empty metadata, get_meta
\* gives for every key the empty string when set_meta was never called with it, the
\* value itself when it was called once, and otherwise all its values in call order;
\* the value a get_meta call returned is that one, the call leaves the record as the
\* set_meta calls made it, and set_meta changes no other key and no other field.
C4_MetadataAccumulation ==
    pc = "meta" =>
        /\ \A key \in Keys : get_meta(question, key) = Accumulated(key)
        /\ ret # <<>> => ret[1].value = Accumulated(ret[1].key)
        /\ \A k \in 1..Len(question.metadata) : question.metadata[k].key \in Keys
        /\ [question EXCEPT !.metadata = <<>>] = NewQuestion(<<"T">>)

\* get_meta returned a list for a key given twice, while another key was given once
C4_Witness ==
    /\ pc = "meta"
    /\ ret # <<>>
    /\ ret[1].value.type = "list"
    /\ Len(ret[1].value.list) >= 2
    /\ \E key \in Keys : Len(ValuesGiven(calls, key)) = 1 /\ get_meta(question, key).type = "str"

-----------------------------------------------------------------------------
(* md_to_json on one block (Spec).                                         *)

\* the call is over: it returned the record, or an exception ended it
Ended == pc \in {"returned", "raised"}

\* the validator let the block through
Accepted == pc \in {"fields", "returned"} \/ (pc = "raised" /\ exc.type # "SystemExit")

\* C1: the record of an accepted block has, with n = correct_answers_no >= 1, grade 1/n
\* on every correct answer, and on every incorrect one -1/n when n > 1 and 0 when n = 1.
C1_GradeInvariant ==
    pc = "returned" =>
        LET n == question.correct_answers_no
        IN  /\ n >= 1
            /\ \A k \in 1..Len(question.answers) :
                  question.answers[k].grade =
                      IF question.answers[k].correct THEN Grade(1, n)
                      ELSE IF n > 1 THEN Grade(-1, n)
                      ELSE Grade(0, 1)

\* the sections of a normalised block: what follows each '## '
Sections(md) == Tail(Split(md, SectionMark))

SectionNames(md) == [k \in 1..Len(Sections(md)) |-> Lines(Sections(md)[k])[1]]

\* the lines under a section's name
BodyLines(section) == Tail(Lines(RStripNL(section)))

\* the first (the last) section of that name
FirstNamed(md, name) ==
    Sections(md)[CHOOSE k \in 1..Len(Sections(md)) :
        /\ SectionNames(md)[k] = name
        /\ \A j \in 1..(k - 1) : SectionNames(md)[j] # name]

LastNamed(md, name) ==
    Sections(md)[CHOOSE k \in 1..Len(Sections(md)) :
        /\ SectionNames(md)[k] = name
        /\ \A j \in (k + 1)..Len(Sections(md)) : SectionNames(md)[j] # name]

\* the decision C2 states: the error of the first condition violated, or none
StatedDecision(md) ==
    LET first_line == Lines(md)[1]
    IN  IF ~StartsWith(first_line, TitleMark)
        THEN SysExit("MissingTitle", first_line)
        ELSE IF ~(InSeq(QuestionText, SectionNames(md))
                  /\ InSeq(QuestionAnswers, SectionNames(md)))
        THEN SysExit("MissingRequiredSection", Drop(first_line, 2))
        ELSE IF ~\E k \in 1..Len(BodyLines(FirstNamed(md, QuestionAnswers))) :
                    StartsWith(BodyLines(FirstNamed(md, QuestionAnswers))[k], <<"+">>)
        THEN SysExit("NoCorrectAnswer", Drop(first_line, 2))
        ELSE NoExc

\* C2: check_md_q accepts a normalised block exactly when its first line begins with
\* '# ', its section names include 'Question Text' and 'Question Answers', and the
\* 'Question Answers' section has a line beginning with '+'; otherwise it fails with
\* the error of the first of these conditions that is violated.
C2_ValidatorDecision ==
    pc \notin {"md_to_json", "check_md_q"} =>
        IF Accepted THEN StatedDecision(md_copy) = NoExc
        ELSE exc = StatedDecision(md_copy)

\* C5: no accepted block makes md_to_json divide by zero: every 'Question Answers'
\* section whose grade is computed has at least one correct answer.
C5_NoDivisionByZero == Accepted => exc # ZeroDivisionError

\* text.split('=', 1): the text before the first '=' and the whole text after it
SplitFirst(text) ==
    LET j == Find(text, <<"=">>, 1)
    IN  IF j = 0 THEN <<text>> ELSE <<SubSeq(text, 1, j - 1), Drop(text, j)>>

\* the lines of the Metadata sections, in order
RECURSIVE MetadataLines(_)
MetadataLines(sections) ==
    IF sections = <<>> THEN <<>>
    ELSE (IF Lines(sections[1])[1] = Metadata THEN BodyLines(sections[1]) ELSE <<>>)
            \o MetadataLines(Tail(sections))

\* set_meta on each line's tag and value, the line split on its first '=' only
RECURSIVE RecordPairs(_, _)
RecordPairs(q, metas) ==
    IF metas = <<>> THEN q
    ELSE RecordPairs(set_meta(q, SplitFirst(metas[1])[1], SplitFirst(metas[1])[2]),
                     Tail(metas))

\* C8: each Metadata line is split on its first '=' only: the tag is the text before
\* it, the value the whole remainder of the line, further '=' included, and the pairs
\* are recorded through set_meta in line order.
C8_MetadataFirstEquals ==
    pc = "returned" =>
        question.metadata =
            RecordPairs(NewQuestion(<<>>), MetadataLines(Sections(md_copy))).metadata

\* the record the specification gives for ExampleBlock
ExampleRecord ==
    [name |-> <<"Q1">>, statement |-> <<"What is 2+2?">>, feedback |-> <<>>,
     metadata |-> <<>>, correct_answers_no |-> 1,
     answers |-> <<[statement |-> <<"4">>, correct |-> TRUE, grade |-> Grade(1, 1)],
                   [statement |-> <<"5">>, correct |-> FALSE, grade |-> Grade(0, 1)],
                   [statement |-> <<"3">>, correct |-> FALSE, grade |-> Grade(0, 1)]>>]

\* C9: statement is exactly the body lines of the 'Question Text' section joined by
\* single newlines, and feedback those of the 'Feedback' section, whether or not
\* another section follows; the example block parses to the example record.
C9_StatementAndFeedback ==
    pc = "returned" =>
        /\ question.statement = Join(BodyLines(LastNamed(md_copy, QuestionText)), <<NL>>)
        /\ InSeq(Feedback, SectionNames(md_copy)) =>
              question.feedback = Join(BodyLines(LastNamed(md_copy, Feedback)), <<NL>>)
        /\ md_q = ExampleBlock => question = ExampleRecord

-----------------------------------------------------------------------------
(* json_to_md, then md_to_json (SpecRoundTrip).                            *)

\* C3: md_to_json(json_to_md(record)) gives, for a well-formed record, a record with
\* the same name, the same statement, the same answers (statement, correct and grade,
\* in order) and the same feedback.
C3_RoundTrip ==
    (json_obj # Unused /\ Ended) =>
        /\ pc = "returned"
        /\ question.name = json_obj.name
        /\ question.statement = json_obj.statement
        /\ question.answers = json_obj.answers
        /\ "feedback" \in DOMAIN json_obj => question.feedback = json_obj.feedback

-----------------------------------------------------------------------------
(* The batch drivers (SpecQuiz).                                           *)

\* the blocks of the run's document that fail validation
FailingBlocks ==
    { k \in 1..Len(question_arr) :
        check_md_q(Normalize(question_arr[k])).type = "SystemExit" }

\* the block the run stopped at
StoppedAt == Len(question_arr_json) + 1

\* C6: when a block of the document fails validation, quiz_md_to_json stops at the
\* first such block with the validator's error and returns nothing, whatever it parsed
\* before; no later block is validated or parsed.
C6_FailFast ==
    (Ended /\ FailingBlocks # {}) =>
        /\ pc = "raised"
        /\ result = NoResult
        /\ exc.type = "SystemExit"
        /\ StoppedAt \in FailingBlocks
        /\ \A k \in FailingBlocks : StoppedAt <= k

\* md_to_json converts every block of the list
AllValid(list) == \A k \in 1..Len(list) : md_to_json(list[k]).exc = NoExc

\* the records of the blocks of the list, in order
RecordsOf(list) == [k \in 1..Len(list) |-> md_to_json(list[k]).question]

\* quiz_json_to_md gave one text for each record, in order
TextsInOrder ==
    md_arr # Unused =>
        /\ Len(md_arr) = Len(json_arr)
        /\ \A k \in 1..Len(json_arr) : md_arr[k] = json_to_md(json_arr[k])

\* C7 as stated: a document of k valid blocks separated by the triple newline gives
\* exactly k records, the i-th the parse of the i-th block; quiz_json_to_md gives the k
\* texts of k records in order.
C7_BatchOrdering ==
    /\ (Ended /\ blocks # <<>> /\ AllValid(blocks)) =>
          (pc = "returned" /\ result = <<RecordsOf(blocks)>>)
    /\ TextsInOrder

\* C7 amended: the same, for a document that its split on the triple newline takes
\* apart into the k blocks it was made of.
C7_BatchOrderingAmended ==
    /\ (Ended /\ blocks # <<>> /\ AllValid(blocks)
            /\ Split(file_content, TripleNL) = blocks) =>
          (pc = "returned" /\ result = <<RecordsOf(blocks)>>)
    /\ TextsInOrder

\* a document of two valid blocks with different records was converted to the two
\* records
C7_Witness ==
    /\ pc = "returned"
    /\ Len(blocks) >= 2
    /\ AllValid(blocks)
    /\ Split(file_content, TripleNL) = blocks
    /\ Len(result[1]) = Len(blocks)
    /\ result[1][1] # result[1][2]

\* C10: the texts quiz_json_to_md gives for k well-formed records, written one after
\* the other, are split by quiz_md_to_json into k blocks that all pass check_md_q, and
\* the conversion returns k records.
C10_BatchRoundTrip ==
    (Ended /\ json_arr # <<>>) =>
        /\ Len(question_arr) = Len(json_arr)
        /\ FailingBlocks = {}
        /\ pc = "returned"
        /\ Len(result[1]) = Len(json_arr)

====
